---- MODULE Spec2Model ----
(***************************************************************************)
(* A model of nlshell: the rule-based command safety classifier of         *)
(* ai_agent.py (AIAgent.check_command_safety and the rule table), and the  *)
(* read-eval loop of nlshell.py that routes user input to the classifier,  *)
(* the confirmation prompt and the command executor.                       *)
(*                                                                         *)
(* Commands and regular expressions are kept as character strings: the     *)
(* patterns below are the pattern strings of the source, interpreted by a  *)
(* matcher with the semantics of Python's re.match.                        *)
(***************************************************************************)
EXTENDS Integers, Sequences, FiniteSets, TLC

(***************************************************************************)
(* Strings (Python str operations used by the source)                      *)
(***************************************************************************)

\* s[i] as a one-character string, 1-based
At(s, i) == SubSeq(s, i, i)

\* the characters str.strip() removes and the regex class \s matches
Whitespace == {" ", "\t", "\n", "\r", "\f"}

\* the characters the regex class \d matches
Digits == {"0", "1", "2", "3", "4", "5", "6", "7", "8", "9"}

\* the characters the regex class \w matches
WordChars ==
    {SubSeq("abcdefghijklmnopqrstuvwxyzABCDEFGHIJKLMNOPQRSTUVWXYZ0123456789_", i, i) : i \in 1..63}

UpperCase == "ABCDEFGHIJKLMNOPQRSTUVWXYZ"

LowerCase == "abcdefghijklmnopqrstuvwxyz"

LowerChar(c) ==
    IF \E i \in 1..Len(UpperCase) : At(UpperCase, i) = c
    THEN At(LowerCase, CHOOSE i \in 1..Len(UpperCase) : At(UpperCase, i) = c)
    ELSE c

RECURSIVE lower(_)
\* str.lower()
lower(s) == IF s = "" THEN "" ELSE LowerChar(At(s, 1)) \o lower(SubSeq(s, 2, Len(s)))

RECURSIVE lstrip(_, _)
lstrip(s, chars) ==
    IF s # "" /\ At(s, 1) \in chars THEN lstrip(SubSeq(s, 2, Len(s)), chars) ELSE s

RECURSIVE rstrip(_, _)
rstrip(s, chars) ==
    IF s # "" /\ At(s, Len(s)) \in chars THEN rstrip(SubSeq(s, 1, Len(s) - 1), chars) ELSE s

\* str.strip(chars)
strip_chars(s, chars) == rstrip(lstrip(s, chars), chars)

\* str.strip()
strip(s) == strip_chars(s, Whitespace)

\* str.startswith(p)
startswith(s, p) == Len(s) >= Len(p) /\ SubSeq(s, 1, Len(p)) = p

\* str.endswith(p)
endswith(s, p) == Len(s) >= Len(p) /\ SubSeq(s, Len(s) - Len(p) + 1, Len(s)) = p

\* p in s
contains(s, p) == \E i \in 1..(Len(s) - Len(p) + 1) : SubSeq(s, i, i + Len(p) - 1) = p

(***************************************************************************)
(* Regular expressions: the subset of Python's re syntax the rule table    *)
(* and the input patterns use (^ $ . \s \d \w, escaped literals, * + ?    *)
(* on one atom, and a group of alternatives).  A match is simulated on     *)
(* sets of positions: S is the set of indices of the next character to     *)
(* consume.                                                                *)
(***************************************************************************)

\* does the one-character class a accept the character c
ReCharMatches(a, c) ==
    CASE a.kind = "space" -> c \in Whitespace
      [] a.kind = "digit" -> c \in Digits
      [] a.kind = "word"  -> c \in WordChars
      [] a.kind = "any"   -> c # "\n"
      [] OTHER            -> c = a.c

\* the atom that starts at index i of pattern p, and its length in p
ReAtomAt(p, i) ==
    IF At(p, i) = "\\"
    THEN [len  |-> 2,
          atom |-> CASE At(p, i + 1) = "s" -> [kind |-> "space", c |-> ""]
                     [] At(p, i + 1) = "d" -> [kind |-> "digit", c |-> ""]
                     [] At(p, i + 1) = "w" -> [kind |-> "word", c |-> ""]
                     [] OTHER              -> [kind |-> "lit", c |-> At(p, i + 1)]]
    ELSE [len  |-> 1,
          atom |-> IF At(p, i) = "." THEN [kind |-> "any", c |-> ""]
                                     ELSE [kind |-> "lit", c |-> At(p, i)]]

\* one character of class a consumed from every position of S
ReStep(a, s, S) == {i + 1 : i \in {j \in S : j <= Len(s) /\ ReCharMatches(a, At(s, j))}}

RECURSIVE ReClosure(_, _, _)
\* zero or more characters of class a consumed from the positions of S
ReClosure(a, s, S) ==
    LET T == S \cup ReStep(a, s, S)
    IN  IF T = S THEN S ELSE ReClosure(a, s, T)

\* index of the parenthesis that closes the group opened at index i
ReGroupEnd(p, i) ==
    CHOOSE j \in (i + 1)..Len(p) :
        At(p, j) = ")" /\ \A k \in (i + 1)..(j - 1) : At(p, k) # ")"

RECURSIVE ReAlternatives(_)
\* the alternatives of a group body, split at "|"
ReAlternatives(body) ==
    IF \E i \in 1..Len(body) : At(body, i) = "|"
    THEN LET i == CHOOSE i \in 1..Len(body) :
                      At(body, i) = "|" /\ \A k \in 1..(i - 1) : At(body, k) # "|"
         IN  {SubSeq(body, 1, i - 1)} \cup ReAlternatives(SubSeq(body, i + 1, Len(body)))
    ELSE {body}

RECURSIVE ReRun(_, _, _, _)
\* the positions reached after matching p[i..] from the positions of S
ReRun(p, i, s, S) ==
    IF i > Len(p) \/ S = {} THEN S
    ELSE LET c == At(p, i) IN
         CASE c = "^" -> ReRun(p, i + 1, s, S \cap {1})
           [] c = "$" ->
                ReRun(p, i + 1, s,
                      S \cap ({Len(s) + 1} \cup
                              (IF s # "" /\ At(s, Len(s)) = "\n" THEN {Len(s)} ELSE {})))
           [] c = "(" ->
                LET j == ReGroupEnd(p, i)
                    T == UNION {ReRun(alt, 1, s, S) : alt \in ReAlternatives(SubSeq(p, i + 1, j - 1))}
                IN  ReRun(p, j + 1, s, T)
           [] OTHER ->
                LET a == ReAtomAt(p, i)
                    q == i + a.len
                    quant == IF q <= Len(p) THEN At(p, q) ELSE ""
                IN  IF quant = "*" THEN ReRun(p, q + 1, s, ReClosure(a.atom, s, S))
                    ELSE IF quant = "+"
                         THEN ReRun(p, q + 1, s, ReClosure(a.atom, s, ReStep(a.atom, s, S)))
                         ELSE IF quant = "?"
                              THEN ReRun(p, q + 1, s, S \cup ReStep(a.atom, s, S))
                              ELSE ReRun(p, q, s, ReStep(a.atom, s, S))

\* re.match(p, s) is not None: p matches a prefix of s
re_match(p, s) == ReRun(p, 1, s, {1}) # {}

\* re.search(p, s) is not None: p matches at some position of s
re_search(p, s) == ReRun(p, 1, s, 1..(Len(s) + 1)) # {}

(***************************************************************************)
(* The rule table                                                          *)
(***************************************************************************)

SafetyRule(pattern, allowed, reason, auto_execute) ==
    [pattern |-> pattern, allowed |-> allowed, reason |-> reason, auto_execute |-> auto_execute]

\* AIAgent._init_safety_rules
_init_safety_rules ==
    << SafetyRule("^ls\\s", TRUE, "Safe file listing", TRUE),
       SafetyRule("^find\\s.*-type\\s+f.*-exec\\s+ls\\s+-lh", TRUE, "Safe file search with size", TRUE),
       SafetyRule("^du\\s+-h.*--max-depth", TRUE, "Safe disk usage check", TRUE),
       SafetyRule("^df\\s+-h", TRUE, "Safe disk space check", TRUE),
       SafetyRule("^wc\\s+-l", TRUE, "Safe line count", TRUE),
       SafetyRule("^file\\s+", TRUE, "Safe file type detection", TRUE),
       SafetyRule("^head\\s+-n\\s+\\d+", TRUE, "Safe file preview", TRUE),
       SafetyRule("^tail\\s+-n\\s+\\d+", TRUE, "Safe file preview", TRUE),
       SafetyRule("^grep\\s+.*--color=never", TRUE, "Safe text search", TRUE),
       SafetyRule("^stat\\s+", TRUE, "Safe file statistics", TRUE),
       SafetyRule("^pwd$", TRUE, "Safe current directory", TRUE),
       SafetyRule("^whoami$", TRUE, "Safe user info", TRUE),
       SafetyRule("^uname\\s+-a", TRUE, "Safe system info", TRUE),
       SafetyRule("^ps\\s+aux", TRUE, "Safe process listing", TRUE),
       SafetyRule("^top\\s+-b\\s+-n1", TRUE, "Safe system snapshot", TRUE),
       SafetyRule("^free\\s+-h", TRUE, "Safe memory info", TRUE),
       SafetyRule("^uptime$", TRUE, "Safe uptime info", TRUE),
       SafetyRule("^cat\\s+.*\\.(txt|log|conf|json|xml|csv)$", TRUE, "Safe text file reading", TRUE),
       SafetyRule("^rm\\s+", FALSE, "File deletion not allowed", FALSE),
       SafetyRule("^sudo\\s+", FALSE, "Elevated privileges not allowed", FALSE),
       SafetyRule("^chmod\\s+", FALSE, "Permission changes not allowed", FALSE),
       SafetyRule("^chown\\s+", FALSE, "Ownership changes not allowed", FALSE),
       SafetyRule("^mv\\s+", FALSE, "File moving not allowed", FALSE),
       SafetyRule("^cp\\s+.*>\\s*/", FALSE, "System file copying not allowed", FALSE),
       SafetyRule(">\\s*/etc/", FALSE, "System directory writing not allowed", FALSE),
       SafetyRule(">\\s*/usr/", FALSE, "System directory writing not allowed", FALSE),
       SafetyRule(">\\s*/bin/", FALSE, "System directory writing not allowed", FALSE),
       SafetyRule("^dd\\s+", FALSE, "Direct disk access not allowed", FALSE),
       SafetyRule("^fdisk\\s+", FALSE, "Disk partitioning not allowed", FALSE),
       SafetyRule("^mkfs\\s+", FALSE, "Filesystem creation not allowed", FALSE),
       SafetyRule("^mount\\s+", FALSE, "Mounting not allowed", FALSE),
       SafetyRule("^umount\\s+", FALSE, "Unmounting not allowed", FALSE),
       SafetyRule("^kill\\s+-9", FALSE, "Force kill not allowed", FALSE),
       SafetyRule("^killall\\s+", FALSE, "Mass process termination not allowed", FALSE),
       SafetyRule("^shutdown\\s+", FALSE, "System shutdown not allowed", FALSE),
       SafetyRule("^reboot\\s+", FALSE, "System reboot not allowed", FALSE),
       SafetyRule("^poweroff\\s+", FALSE, "System poweroff not allowed", FALSE),
       SafetyRule("^halt\\s+", FALSE, "System halt not allowed", FALSE),
       SafetyRule("curl.*\\|\\s*bash", FALSE, "Piped execution not allowed", FALSE),
       SafetyRule("wget.*\\|\\s*bash", FALSE, "Piped execution not allowed", FALSE) >>

\* the secondary list of check_command_safety
safe_patterns ==
    << "^echo\\s+", "^which\\s+", "^type\\s+", "^history\\s*$", "^date\\s*$" >>

\* the result triple (is_safe, auto_execute, reason)
Triple(allowed, auto, reason) == [allowed |-> allowed, auto_execute |-> auto, reason |-> reason]

RECURSIVE LastMatch(_, _, _)
\* FirstMatch with the loop not leaving at the first hit: the last pattern
\* that matches decides
LastMatch(patterns, i, s) ==
    IF i > Len(patterns) THEN 0
    ELSE LET later == LastMatch(patterns, i + 1, s)
         IN  IF later # 0 THEN later
             ELSE IF re_match(patterns[i], s) THEN i ELSE 0

RECURSIVE FirstMatch(_, _, _)
\* "for p in patterns: if re.match(p, s)": index of the first pattern that
\* matches, 0 when the loop runs to its end
FirstMatch(patterns, i, s) ==
    IF i > Len(patterns) THEN 0
    ELSE IF re_match(patterns[i], s) THEN i
    ELSE FirstMatch(patterns, i + 1, s)

\* the body of check_command_safety once the command is normalized: the
\* rules in order, then the secondary list, then the default
classify_normalized(rules, command_lower) ==
    LET i == FirstMatch([k \in 1..Len(rules) |-> rules[k].pattern], 1, command_lower)
    IN  IF i # 0
        THEN Triple(rules[i].allowed, rules[i].auto_execute /\ rules[i].allowed, rules[i].reason)
        ELSE IF FirstMatch(safe_patterns, 1, command_lower) # 0
             THEN Triple(TRUE, TRUE, "Basic safe command")
             ELSE Triple(TRUE, FALSE, "Requires user confirmation")

\* check_command_safety without .lower(): the command is matched as typed
check_command_safety_no_lower(rules, command) == classify_normalized(rules, strip(command))

\* check_command_safety without .strip(): leading blanks defeat the anchors
check_command_safety_no_strip(rules, command) == classify_normalized(rules, lower(command))

\* check_command_safety with a default that lets unknown commands run
check_command_safety_default_auto(rules, command) ==
    LET r == classify_normalized(rules, strip(lower(command)))
    IN  IF r.reason = "Requires user confirmation" THEN Triple(TRUE, TRUE, r.reason) ELSE r

\* AIAgent.check_command_safety over the rule list rules (self.safety_rules)
check_command_safety_with(rules, command) == classify_normalized(rules, strip(lower(command)))

(***************************************************************************)
(* Bounds and inputs                                                       *)
(***************************************************************************)

\* longest command list an AI response carries
MaxCmds == 2

\* deepest chain of fix lists proposed by error analysis
MaxDepth == 2

\* most words of a generated command handed to the classifier
MaxWords == 2

\* most rules of a generated rule table
MaxRules == 2

\* most chunks of output the child of a PTY session writes
MaxChunks == 2

\* most bytes one os.read(master_fd, 1024) returns, standing for the 1024
ReadSize == 2

\* most keys the user types during one PTY session
MaxKeys == 2

\* most SIGINTs delivered to the shell in one run
MaxInterrupts == 1

\* the commands the AI collaborator proposes
ShellCommands == {"ls -la", "rm -rf /tmp/x", "cd t"}

\* the lines the user types at the prompt
UserInputs ==
    {"!" \o c : c \in ShellCommands} \cup
    {"", "exit", "show_thinking", "ls -la!", "list files -a", "show me the files",
     "why -q", "analyze file a.txt", "!./a.out", "!cd"}

\* the lines handed to _handle_agent_query
AgentInputs == {"list files -a", "show me the files -A", "why -q"}

\* the user's home directory (Path.home())
Home == "/home/u"

\* the directories that exist
ExistingDirs == {"/", "/home", "/home/u", "/home/u/t", "/home/u/node_modules"}

\* the files that exist and carry execute permission
ExecutableFiles == {"/bin/a"}

RECURSIVE SeqsUpTo(_, _)
\* the sequences of at most n elements of S
SeqsUpTo(S, n) ==
    IF n = 0 THEN {<<>>}
    ELSE LET R == SeqsUpTo(S, n - 1)
         IN  R \cup {Append(r, x) : r \in {q \in R : Len(q) = n - 1}, x \in S}

CommandLists == SeqsUpTo(ShellCommands, MaxCmds)

\* AIResponse (message and confidence are not read by the code modelled)
AIResponse(cmds, clar, think, expl) ==
    [suggested_commands |-> cmds, needs_clarification |-> clar,
     thinking_mode |-> think, exploration_commands |-> expl]

\* what _parse_ai_response can return, and the empty response of the
\* "except Exception" handlers of the AI calls
AIResponses ==
    {AIResponse(c, n, t, e) : c \in CommandLists, n \in BOOLEAN, t \in BOOLEAN, e \in CommandLists}

(***************************************************************************)
(* nlshell.py: input routing                                               *)
(***************************************************************************)

\* NLShell._is_direct_command
_is_direct_command(u) == startswith(u, "!") \/ endswith(u, "!") \/ startswith(u, "! ")

\* NLShell._is_question
_is_question(u) == endswith(u, "-q")

\* NLShell._clean_direct_command
_clean_direct_command(u) == strip(strip_chars(u, {"!", " "}))

\* is_agent_query of NLShell._handle_agent_query
is_agent_query(u) == re_match(".*-a$", lower(strip(u)))

\* query of NLShell._handle_agent_query: user_input[:-2].strip()
agent_query(u) == strip(SubSeq(u, 1, Len(u) - 2))

file_patterns ==
    << "what'?s in (this|the) file (.+)", "analyze file (.+)", "read file (.+)",
       "what is (.+\\.\\w+)", "open (.+\\.\\w+)" >>

RECURSIVE FirstSearch(_, _, _)
\* "for p in patterns: if re.search(p, s)": index of the first hit, else 0
FirstSearch(patterns, i, s) ==
    IF i > Len(patterns) THEN 0
    ELSE IF re_search(patterns[i], s) THEN i
    ELSE FirstSearch(patterns, i + 1, s)

\* NLShell._handle_file_analysis returns True: the first pattern found in the
\* input decides, and its last group, which runs to the end of the line, is
\* not blank (it is blank exactly when the pattern is no longer found once
\* the trailing blanks of the line are removed)
_handle_file_analysis(u) ==
    LET i == FirstSearch(file_patterns, 1, lower(u))
    IN  i # 0 /\ re_search(file_patterns[i], rstrip(lower(u), Whitespace))

thinking_indicators ==
    {"this file", "that file", "the file", "these files", "those files",
     "the folder", "this folder", "that folder", "this directory",
     "what is in", "what's in", "show me", "tell me about", "analyze",
     "summarize", "summary of", "what does", "how big", "how many",
     "matrix file", "config file", "log file", "data file", "script file",
     "python file", "text file", "json file", "csv file",
     "delete this", "remove this", "delete the", "remove the",
     "edit this", "modify this", "change this",
     "find", "search for", "look for", "where is", "which file",
     "largest file", "smallest file", "newest file", "oldest file",
     "most recent", "latest", "biggest", "smallest",
     "what's taking up space", "disk usage", "memory usage",
     "running processes", "active connections", "system status"}

\* AICore._requires_thinking
_requires_thinking(u) == \E indicator \in thinking_indicators : contains(lower(u), indicator)

(***************************************************************************)
(* nlshell.py: the executor                                                *)
(***************************************************************************)

\* cmd.strip().split()[0]
first_token(cmd) ==
    LET t == strip(cmd)
        ends == {i \in 1..Len(t) : At(t, i) \in Whitespace}
    IN  IF ends = {} THEN t
        ELSE SubSeq(t, 1, (CHOOSE i \in ends : \A j \in ends : i <= j) - 1)

\* NLShell._is_interactive_command
_is_interactive_command(cmd) ==
    \/ \E ext \in {"exe", "out", "bin"} :
          startswith(strip(cmd), "./" \o ext) \/ endswith(strip(cmd), "." \o ext)
    \/ startswith(strip(cmd), "./") /\ ~\E ext \in {".txt", ".log", ".conf"} : contains(cmd, ext)
    \/ \E prog \in {"python -i", "node", "irb", "ghci"} : contains(lower(cmd), prog)
    \/ contains(cmd, "/") /\ first_token(cmd) \in ExecutableFiles

\* os.path.expanduser(path)
expanduser(path) ==
    IF path = "~" THEN Home
    ELSE IF startswith(path, "~/") THEN Home \o SubSeq(path, 2, Len(path))
    ELSE path

\* the directory os.chdir(os.path.expanduser(path)) asks for, from directory d
chdir_target(d, path) ==
    LET p == expanduser(path)
        slashes == {i \in 1..Len(d) : At(d, i) = "/"}
        last == CHOOSE i \in slashes : \A j \in slashes : j <= i
        parent == IF last = 1 THEN "/" ELSE SubSeq(d, 1, last - 1)
        q == IF startswith(p, "./") THEN SubSeq(p, 3, Len(p)) ELSE p
    IN  IF startswith(p, "/") THEN p
        ELSE IF p = "." THEN d
        ELSE IF p = ".." THEN parent
        ELSE IF d = "/" THEN "/" \o q
        ELSE d \o "/" \o q

\* exit codes of a child run through the shell (0, or a failure)
ExitCodes == {0, 1}

\* exit codes of _execute_interactive_command: the child's (negative when a
\* signal ended it), 1 for an error of the session
InteractiveExitCodes == {0, 1, -1}

\* the result of one run of a command: the executor that took it ("cd",
\* "pty" or "batch"), the returned (returncode, stdout, stderr) and the
\* directory state after the call
Outcome(route, rc, stdout, stderr, dir, wd) ==
    [route |-> route, returncode |-> rc, stdout |-> stdout, stderr |-> stderr,
     current_dir |-> dir, cwd |-> wd]

\* what a child process may have written to a captured stream
ChildOutputs == {"", "text"}

\* str(e) of the OSError os.chdir raises for a directory that does not exist
chdir_error(path) == "[Errno 2] No such file or directory: '" \o path \o "'"

\* the path a "cd " command names: command.strip()[3:].strip(), or the home
\* directory when that is empty
cd_path(command) ==
    LET path == strip(SubSeq(strip(command), 4, Len(strip(command))))
    IN  IF path = "" THEN Home ELSE path

\* str(e) of what pty.openpty() or subprocess.Popen raises
spawn_error == "[Errno 2] No such file or directory"

\* str(e) of what select.select raises in the loop of a PTY session: standard
\* input has no file descriptor, or master_fd is beyond what select takes
select_error == "filedescriptor out of range in select()"

\* the exceptions that reach the handler of _execute_interactive_command
SessionFaults == {spawn_error, select_error}

\* str(e) of the UnicodeDecodeError of stdout.decode('utf-8')
decode_error == "'utf-8' codec can't decode byte 0xff in position 0: invalid start byte"

\* the exceptions raised while a child is started and its output collected:
\* the spawn fails (the directory of cwd= is gone), the output is not UTF-8
SpawnFaults == {spawn_error, decode_error}

\* an except clause that reports the exception as a success
recovered_as_success(route, e, dir, wd) == Outcome(route, 0, "", e, dir, wd)

\* except Exception as e: return 1, "", str(e)
recovered(route, e, dir, wd) == Outcome(route, 1, "", e, dir, wd)

\* NLShell._execute_interactive_command as one step: the exit code and the
\* output of the session, or an exception recovered by its own handler
_execute_interactive_command(command, dir, wd) ==
    {Outcome("pty", rc, o, "", dir, wd) : rc \in InteractiveExitCodes, o \in ChildOutputs}
        \cup {recovered("pty", e, dir, wd) : e \in SessionFaults}

\* the child of asyncio.create_subprocess_shell and process.communicate():
\* its exit code and decoded streams, or an exception recovered by the
\* handler of _execute_command
create_subprocess_shell(command, dir, wd) ==
    {Outcome("batch", rc, o, e, dir, wd) :
        rc \in ExitCodes, o \in ChildOutputs, e \in ChildOutputs}
        \cup {recovered("batch", e, dir, wd) : e \in SpawnFaults}

\* a child started in the home directory whatever self.current_dir is
child_cwd_home(route, dir) == IF route = "cd" THEN "" ELSE Home

\* the cwd= argument the child of a call is started with, by
\* asyncio.create_subprocess_shell or subprocess.Popen: self.current_dir
\* ("" for cd, which starts no child)
child_cwd(route, dir) == IF route = "cd" THEN "" ELSE dir

\* _execute_command with self.current_dir assigned before os.chdir is tried
_execute_command_assigns_first(command, dir, wd) ==
    IF startswith(strip(command), "cd ")
    THEN LET target == chdir_target(wd, cd_path(command))
         IN  IF target \in ExistingDirs
             THEN {Outcome("cd", 0, "Changed directory to " \o target, "", target, target)}
             ELSE {Outcome("cd", 1, "", chdir_error(expanduser(cd_path(command))), target, wd)}
    ELSE IF _is_interactive_command(command)
         THEN _execute_interactive_command(command, dir, wd)
         ELSE create_subprocess_shell(command, dir, wd)

\* _execute_command with the interactivity check placed before the cd check
_execute_command_interactive_first(command, dir, wd) ==
    IF _is_interactive_command(command)
    THEN _execute_interactive_command(command, dir, wd)
    ELSE IF startswith(strip(command), "cd ")
         THEN LET target == chdir_target(wd, cd_path(command))
              IN  IF target \in ExistingDirs
                  THEN {Outcome("cd", 0, "Changed directory to " \o target, "", target, target)}
                  ELSE {Outcome("cd", 1, "", chdir_error(expanduser(cd_path(command))), dir, wd)}
         ELSE create_subprocess_shell(command, dir, wd)

\* NLShell._execute_command: the possible outcomes of running command when
\* self.current_dir = dir and the process is in directory wd
_execute_command(command, dir, wd) ==
    IF startswith(strip(command), "cd ")
    THEN LET target == chdir_target(wd, cd_path(command))
         IN  IF target \in ExistingDirs
             THEN {Outcome("cd", 0, "Changed directory to " \o target, "", target, target)}
             ELSE {Outcome("cd", 1, "", chdir_error(expanduser(cd_path(command))), dir, wd)}
    ELSE IF _is_interactive_command(command)
         THEN _execute_interactive_command(command, dir, wd)
         ELSE create_subprocess_shell(command, dir, wd)

(***************************************************************************)
(* State                                                                   *)
(***************************************************************************)

VARIABLES
    safety_rules,    \* AIAgent.safety_rules
    current_dir,     \* NLShell.current_dir
    cwd,             \* the working directory of the process (os.getcwd())
    pc,              \* where the shell is
    caller,          \* who asked for commands: "run" or "agent"
    user_input,      \* the line being handled
    ai_response,     \* the response being acted on
    explore,         \* _think_and_explore: exploration commands still to run
    stack,           \* active calls of _execute_commands_with_confirmation
    agent,           \* process_agent_query: the loop over the suggested commands
    arg,             \* the command a direct call of check_command_safety is given
    last_verdict,    \* the latest call of check_command_safety and its result
    verdicts,        \* every call of check_command_safety so far and its result
    classified,      \* the commands classified while handling the current input
    last_dispatch,   \* the latest command handed to an executor
    last_exec,       \* the latest call of _execute_command made on its own
    session,         \* the PTY session of _execute_interactive_command
    terminal,        \* the terminal on the shell's standard input
    interrupted,     \* the SIGINTs delivered to the shell outside a PTY session
    returns,         \* what the activations that ended in the latest step returned
    history          \* the entry added to NLShell.history for the current input

vars == <<safety_rules, current_dir, cwd, pc, caller, user_input, ai_response, explore,
          stack, agent, arg, last_verdict, verdicts, classified, last_dispatch, last_exec,
          session, terminal, interrupted, returns, history>>

dirVars == <<current_dir, cwd>>

classifierVars == <<safety_rules, arg, last_verdict, verdicts, classified>>

sessionVars == <<session, terminal>>

callVars == <<returns, history>>

sessionEnv == <<last_exec, session, terminal, interrupted>>

envVars == <<last_exec, session, terminal, interrupted, returns, history>>

\* check_command_safety over rules that the first call uses up (a one-shot
\* iterator in place of the list)
check_command_safety_consumed(command) ==
    check_command_safety_with(IF verdicts = {} THEN safety_rules ELSE <<>>, command)

\* AIAgent.check_command_safety
check_command_safety(command) == check_command_safety_with(safety_rules, command)

NoResponse == AIResponse(<<>>, FALSE, FALSE, <<>>)

NoVerdict == [command |-> "", result |-> Triple(FALSE, FALSE, ""), cwd |-> ""]

NoDispatch ==
    [command |-> "", via |-> "none", approved |-> FALSE, marker |-> FALSE,
     after_failure |-> FALSE, route |-> "none", returncode |-> 0, before |-> <<"", "">>]

\* a command handed to an executor: by which path, whether the user approved
\* it (typed it, or confirmed the list it is in), whether the input carried
\* "!", whether an earlier command of the same sequence had failed, the
\* executor that took it and the exit code it returned, and the directory
\* state (current_dir, cwd) at the call
Dispatch(command, via, approved, after_failure, out, dir, wd) ==
    [command |-> command, via |-> via, approved |-> approved,
     marker |-> _is_direct_command(user_input), after_failure |-> after_failure,
     route |-> out.route, returncode |-> out.returncode, before |-> <<dir, wd>>]

\* no SIGINT so far; otherwise how many, and where the latest found the shell
\* ("prompt" for the read of a line, "busy" for anything else)
NoInterrupt == [n |-> 0, at |-> ""]

\* nothing added to self.history yet; otherwise the input and the 'success'
\* of the entry
NoEntry == [appended |-> FALSE, input |-> "", success |-> FALSE]

\* no call of _execute_command recorded
NoExec ==
    [command |-> "", out |-> Outcome("none", 0, "", "", "", ""), before |-> <<"", "">>,
     child_cwd |-> ""]

\* _execute_interactive_command is not running. A session holds: where it is
\* (phase), the two descriptors of pty.openpty() and the calls of os.close on
\* the master, the child (running, exited, or reaped by poll()/wait()) and
\* its exit status, the writes the child has made, the bytes waiting in the
\* pty, the bytes read from the master so far (received), output_buffer, the
\* reads of the drain loop, the keys typed so far, those waiting on standard
\* input and those written to the master, old_settings, the terminal
\* attributes found at the start, the calls of tcsetattr that restore them,
\* the signals sent with os.killpg, the phases in which a SIGINT arrived, and
\* the returned (returncode, stdout, stderr)
NoSession ==
    [phase |-> "idle", command |-> "", master_fd |-> "none", master_closes |-> 0,
     slave_fd |-> "none", child |-> "none", exit_status |-> 0, written |-> 0,
     pty_buffer |-> <<>>, received |-> <<>>, output_buffer |-> <<>>, drained |-> 0,
     typed |-> 0, stdin_buffer |-> <<>>, to_child |-> <<>>,
     old_settings |-> "None", attrs_before |-> "", restores |-> 0, killpg |-> <<>>,
     sigint |-> {}, returncode |-> 0, stdout |-> <<>>, stderr |-> ""]

\* the attribute sets a terminal may be found in before a session
TerminalModes == {"cooked", "cbreak"}

\* a terminal (or, with is_tty false, a pipe or file) on standard input
Terminal(is_tty, attrs) == [is_tty |-> is_tty, attrs |-> attrs]

NoAgent == [k |-> 0, results |-> <<>>, executed_commands |-> <<>>, final_data |-> 0]

\* one activation of _execute_commands_with_confirmation: its arguments,
\* whether the user has confirmed the list, the loop index, success_count,
\* the index of the first command that returned a non-zero exit code (0 when
\* none has) and the calls of analyze_error made for that failure
Frame(commands, auto_confirm) ==
    [commands |-> commands, auto_confirm |-> auto_confirm, confirmed |-> FALSE, i |-> 1,
     success_count |-> 0, failed |-> 0, analyzed |-> 0]

Init ==
    /\ safety_rules = _init_safety_rules
    /\ current_dir = Home
    /\ cwd = Home
    /\ pc = "prompt"
    /\ caller = "run"
    /\ user_input = ""
    /\ ai_response = NoResponse
    /\ explore = <<>>
    /\ stack = <<>>
    /\ agent = NoAgent
    /\ arg = ""
    /\ last_verdict = NoVerdict
    /\ verdicts = {}
    /\ classified = {}
    /\ last_dispatch = NoDispatch
    /\ last_exec = NoExec
    /\ returns = <<>>
    /\ history = NoEntry
    /\ session = NoSession
    /\ terminal = Terminal(TRUE, "cooked")
    /\ interrupted = NoInterrupt

(***************************************************************************)
(* NLShell.run                                                             *)
(***************************************************************************)

\* one turn of the loop: the directory is refreshed, a line is read and routed
ReadInput(u) ==
    /\ pc = "prompt"
    /\ caller' = "run"
    /\ current_dir' = cwd
    /\ user_input' = u
    /\ ai_response' = NoResponse
    /\ classified' = {}
    /\ last_dispatch' = NoDispatch
    /\ returns' = <<>>
    /\ history' = NoEntry
    /\ pc' = IF strip(u) = "" THEN "prompt"
             ELSE IF lower(u) \in {"exit", "quit", "bye"} THEN "exited"
             ELSE IF u = "show_thinking" \/ startswith(u, "save_mem")
                     \/ lower(u) \in {"show mem", "mem", "show memory"} THEN "prompt"
             ELSE IF _is_direct_command(u) THEN "direct"
             ELSE IF _is_question(u) THEN "question"
             ELSE IF _handle_file_analysis(u) THEN "prompt"
             ELSE "natural_language"
    /\ UNCHANGED <<sessionEnv, safety_rules, cwd, explore, stack, agent, arg, last_verdict,
                   verdicts>>

\* "!command": the command goes straight to _execute_command
ExecuteDirect ==
    /\ pc = "direct"
    /\ LET command == _clean_direct_command(user_input)
       IN  \E out \in _execute_command(command, current_dir, cwd) :
              /\ current_dir' = out.current_dir
              /\ cwd' = out.cwd
              /\ last_dispatch' = Dispatch(command, "direct", TRUE, FALSE, out, current_dir, cwd)
    /\ pc' = "prompt"
    /\ UNCHANGED <<envVars, caller, user_input, ai_response, explore, stack, agent, classifierVars>>

\* "... -q": _handle_agent_query is tried first (it declines every line that
\* ends in "-q"), then file analysis or answer_question; no command results
Question ==
    /\ pc = "question"
    /\ IF is_agent_query(user_input)
       THEN caller' = "agent" /\ pc' = "natural_language"
       ELSE caller' = caller /\ pc' = "prompt"
    /\ ai_response' = NoResponse
    /\ UNCHANGED <<envVars, dirVars, user_input, explore, stack, agent, classifierVars, last_dispatch>>

\* the request process_natural_language is given
query == IF caller = "agent" THEN agent_query(user_input) ELSE user_input

\* the turn is over. In run the entry with 'success' goes to self.history
\* unless the input was a direct command or a question;
\* _handle_agent_query drops the value and adds no entry
Finish(success) ==
    /\ stack' = <<>>
    /\ pc' = "prompt"
    /\ history' = IF caller = "run"
                  THEN [appended |-> ~_is_direct_command(user_input)
                                        /\ ~_is_question(user_input),
                        input |-> user_input, success |-> success]
                  ELSE history

\* the first activation of _execute_commands_with_confirmation for commands;
\* run does not call it for an empty list: it shows the message of the
\* response and sets success = True
Call(commands, auto_confirm) ==
    IF commands = <<>>
    THEN Finish(TRUE)
    ELSE /\ stack' = <<Frame(commands, auto_confirm)>>
         /\ pc' = IF auto_confirm THEN "execute" ELSE "confirm"
         /\ UNCHANGED history

\* NLShell.run acting on the response r of process_natural_language
\* (process_with_clarification when clarified)
Route(r, clarified) ==
    IF ~clarified /\ r.thinking_mode /\ r.exploration_commands # <<>>
    THEN Call(r.exploration_commands, TRUE)
    ELSE IF ~clarified /\ r.needs_clarification
         THEN stack' = <<>> /\ pc' = "clarification" /\ UNCHANGED history
         ELSE Call(r.suggested_commands, FALSE)

\* process_agent_query acting on the response: the loop starts, or the
\* response is shown when it carries no command
AgentRoute(r) ==
    /\ stack' = <<>>
    /\ UNCHANGED history
    /\ pc' = IF r.suggested_commands = <<>> THEN "prompt" ELSE "agent_loop"

\* of a response that has been routed, the fields that are still read: the
\* suggested commands and the thinking flag
Kept(r) == AIResponse(r.suggested_commands, FALSE, r.thinking_mode, <<>>)

\* the response r reaches the caller of process_natural_language
Respond(r) ==
    /\ ai_response' = Kept(r)
    /\ IF caller = "agent" THEN AgentRoute(r) ELSE Route(r, FALSE)
    /\ agent' = NoAgent

\* AICore.process_natural_language when the request needs no thinking
ProcessNaturalLanguage ==
    /\ pc = "natural_language"
    /\ ~_requires_thinking(query)
    /\ \E r \in AIResponses : Respond(r)
    /\ UNCHANGED <<sessionEnv, returns, dirVars, caller, user_input, explore, classifierVars,
                   last_dispatch>>

\* AICore._think_and_explore: the first call of the AI
ThinkAndExplore ==
    /\ pc = "natural_language"
    /\ _requires_thinking(query)
    /\ \E r \in AIResponses :
          IF r.exploration_commands # <<>>
          THEN /\ explore' = r.exploration_commands
               /\ pc' = "thinking"
               /\ UNCHANGED <<ai_response, stack, agent, history>>
          ELSE /\ explore' = <<>>
               /\ Respond(r)
    /\ UNCHANGED <<sessionEnv, returns, dirVars, caller, user_input, classifierVars,
                   last_dispatch>>

\* _execute_thinking_command with "cd " carried out as the executor does
_execute_thinking_command_changes_dir(command, dir, wd) ==
    IF startswith(strip(command), "cd ")
    THEN _execute_command(command, dir, wd)
    ELSE {Outcome("batch", rc, o, e, dir, wd) :
             rc \in ExitCodes, o \in ChildOutputs, e \in ChildOutputs}

\* AICore._execute_thinking_command: "cd " is refused with exit code 1,
\* anything else is spawned in current_dir; the directory state is not touched
_execute_thinking_command(command, dir, wd) ==
    IF startswith(strip(command), "cd ")
    THEN {Outcome("refused", 1, "", "Cannot change directory during thinking phase", dir, wd)}
    ELSE {Outcome("batch", rc, o, e, dir, wd) :
             rc \in ExitCodes, o \in ChildOutputs, e \in ChildOutputs}

\* _think_and_explore runs the next exploration command
ExecuteThinkingCommand ==
    /\ pc = "thinking"
    /\ explore # <<>>
    /\ explore' = Tail(explore)
    /\ \E out \in _execute_thinking_command(Head(explore), current_dir, cwd) :
          /\ current_dir' = out.current_dir
          /\ cwd' = out.cwd
          /\ last_dispatch' = IF out.route = "refused"
                              THEN last_dispatch
                              ELSE Dispatch(Head(explore), "thinking", FALSE, FALSE, out,
                                            current_dir, cwd)
    /\ UNCHANGED <<envVars, pc, caller, user_input, ai_response, stack, agent, classifierVars>>

\* AICore._analyze_exploration_results: the second call of the AI
AnalyzeExplorationResults ==
    /\ pc = "thinking"
    /\ explore = <<>>
    /\ \E r \in AIResponses : Respond(r)
    /\ UNCHANGED <<sessionEnv, returns, dirVars, caller, user_input, explore, classifierVars,
                   last_dispatch>>

\* the user's clarification and AICore.process_with_clarification
ProcessWithClarification ==
    /\ pc = "clarification"
    /\ \E r \in AIResponses : ai_response' = Kept(r) /\ Route(r, TRUE)
    /\ UNCHANGED <<sessionEnv, returns, dirVars, caller, user_input, explore, agent,
                   classifierVars, last_dispatch>>

(***************************************************************************)
(* NLShell._execute_commands_with_confirmation                             *)
(***************************************************************************)

\* a return value that is true only when every command exited with 0
return_value_all(commands, declined, success_count) ==
    ~declined /\ commands # <<>> /\ success_count = Len(commands)

\* the value _execute_commands_with_confirmation returns: False for an empty
\* list and for a list the user declined, else success_count > 0
return_value(commands, declined, success_count) ==
    IF commands = <<>> THEN FALSE
    ELSE IF declined THEN FALSE
    ELSE success_count > 0

\* what the activation frame returns, with what it did: its list and mode,
\* whether the user declined it, how many commands exited with 0 and whether
\* it stopped at a failed command
ReturnOf(frame, declined) ==
    [commands |-> frame.commands, auto_confirm |-> frame.auto_confirm,
     declined |-> declined, zero_exits |-> frame.success_count,
     stopped |-> ~frame.auto_confirm /\ frame.failed # 0,
     value |-> return_value(frame.commands, declined, frame.success_count)]

\* the activations in frames return, the innermost first (the innermost
\* one declined by the user when declined); run goes on with the suggested
\* commands after an exploration batch, otherwise the turn is over with the
\* value of the outermost one as success
Return(frames, declined) ==
    /\ returns' = [k \in 1..Len(frames) |->
                      ReturnOf(frames[k], declined /\ k = Len(frames))]
    /\ IF caller = "run" /\ frames[1].auto_confirm
       THEN Call(ai_response.suggested_commands, FALSE)
       ELSE Finish(ReturnOf(frames[1], declined /\ Len(frames) = 1).value)

\* a confirmation whose answer is not looked at
never_cancelled(auto_confirm, answer) == FALSE

\* if not auto_confirm and not Confirm.ask(...): return False
cancelled(auto_confirm, answer) == ~auto_confirm /\ ~answer

\* Confirm.ask("Execute these commands?")
Confirm(answer) ==
    /\ pc = "confirm"
    /\ LET top == stack[Len(stack)]
       IN  IF cancelled(top.auto_confirm, answer)
           THEN Return(stack, TRUE)
           ELSE /\ pc' = "execute"
                /\ stack' = [stack EXCEPT ![Len(stack)] = [top EXCEPT !.confirmed = answer]]
                /\ returns' = <<>>
                /\ UNCHANGED history
    /\ UNCHANGED <<sessionEnv, dirVars, caller, user_input, ai_response, explore, agent,
                   classifierVars, last_dispatch>>

\* the loop over the commands with no "break" at all
never_stops(auto_confirm) == FALSE

\* whether a non-zero exit code ends the loop over the commands: the call of
\* _handle_command_error and the "break" stand under "if not auto_confirm"
stops_at_failure(auto_confirm) == ~auto_confirm

\* one turn of the loop over the commands: the command is run; a failure in
\* interactive-confirm mode goes to error analysis and ends the loop
ExecuteNext ==
    /\ pc = "execute"
    /\ LET top == stack[Len(stack)]
           command == top.commands[top.i]
       IN  \E out \in _execute_command(command, current_dir, cwd) :
              LET failed == IF out.returncode # 0 /\ top.failed = 0 THEN top.i ELSE top.failed
                  counted == [stack EXCEPT ![Len(stack)] =
                                 [top EXCEPT !.failed = failed,
                                             !.success_count =
                                                 IF out.returncode = 0 THEN @ + 1 ELSE @]]
              IN  /\ current_dir' = out.current_dir
                  /\ cwd' = out.cwd
                  /\ last_dispatch' = Dispatch(command, "sequence", top.confirmed,
                                               top.failed # 0, out, current_dir, cwd)
                  /\ IF out.returncode # 0 /\ stops_at_failure(top.auto_confirm)
                     THEN /\ pc' = "error"
                          /\ stack' = counted
                          /\ returns' = <<>>
                          /\ UNCHANGED history
                     ELSE IF top.i < Len(top.commands)
                          THEN /\ pc' = "execute"
                               /\ stack' = [counted EXCEPT ![Len(stack)].i = @ + 1]
                               /\ returns' = <<>>
                               /\ UNCHANGED history
                          ELSE Return(counted, FALSE)
    /\ UNCHANGED <<sessionEnv, caller, user_input, ai_response, explore, agent, classifierVars>>

\* NLShell._handle_command_error: AICore.analyze_error answers with fix
\* commands (run through a nested activation), with a request for
\* clarification, or with a message only
HandleCommandError ==
    /\ pc \in {"error", "error_clarification"}
    /\ \E cmds \in CommandLists, clar \in BOOLEAN :
          LET top == stack[Len(stack)]
              asked == [stack EXCEPT ![Len(stack)] =
                           [top EXCEPT !.analyzed = IF pc = "error" THEN @ + 1 ELSE @]]
          IN  /\ cmds # <<>> => Len(stack) < MaxDepth
              /\ IF pc = "error" /\ clar
                 THEN /\ pc' = "error_clarification"
                      /\ stack' = asked
                      /\ returns' = <<>>
                      /\ UNCHANGED history
                 ELSE IF cmds # <<>>
                      THEN /\ stack' = Append(asked, Frame(cmds, FALSE))
                           /\ pc' = "confirm"
                           /\ returns' = <<>>
                           /\ UNCHANGED history
                      ELSE Return(asked, FALSE)
    /\ UNCHANGED <<sessionEnv, dirVars, caller, user_input, ai_response, explore, agent,
                   classifierVars, last_dispatch>>

(***************************************************************************)
(* ai_agent.py: the agent                                                  *)
(***************************************************************************)

\* AIAgent.auto_execute_safe_command: the outcome of the call in directory wd.
\* A command that is not safe or not auto-executable is refused; "cd " changes
\* the directory of the process; any other command ends in the "except
\* Exception" handler with exit code 1, because the module does not import
\* the asyncio it spawns the child with.
auto_execute_safe_command(command, wd) ==
    LET v == check_command_safety(command)
    IN  IF ~v.allowed \/ ~v.auto_execute
        THEN [returncode |-> 1, cwd |-> wd, executed |-> FALSE]
        ELSE IF startswith(strip(command), "cd ")
             THEN LET path0 == strip(SubSeq(strip(command), 4, Len(strip(command))))
                      path == IF path0 = "" THEN Home ELSE path0
                      target == chdir_target(wd, path)
                  IN  IF target \in ExistingDirs
                      THEN [returncode |-> 0, cwd |-> target, executed |-> TRUE]
                      ELSE [returncode |-> 1, cwd |-> wd, executed |-> TRUE]
             ELSE [returncode |-> 1, cwd |-> wd, executed |-> TRUE]

\* NLShell._handle_agent_query called with the line u
HandleAgentQuery(u) ==
    /\ pc = "prompt"
    /\ is_agent_query(u)
    /\ caller' = "agent"
    /\ user_input' = u
    /\ ai_response' = NoResponse
    /\ classified' = {}
    /\ last_dispatch' = NoDispatch
    /\ pc' = "natural_language"
    /\ returns' = <<>>
    /\ history' = NoEntry
    /\ UNCHANGED <<sessionEnv, dirVars, safety_rules, explore, stack, agent, arg, last_verdict,
                   verdicts>>

\* AIAgent.process_agent_query: one turn of the loop over the suggested
\* commands; the command is classified, and run when auto-executable
AgentStep ==
    /\ pc = "agent_loop"
    /\ LET command == ai_response.suggested_commands[agent.k + 1]
           v == check_command_safety(command)
           out == auto_execute_safe_command(command, cwd)
           result == IF v.auto_execute
                     THEN [command |-> command, success |-> out.returncode = 0,
                           needs_confirmation |-> FALSE]
                     ELSE [command |-> command, success |-> FALSE,
                           needs_confirmation |-> TRUE]
       IN  /\ last_verdict' = [command |-> command, result |-> v, cwd |-> cwd]
           /\ verdicts' = verdicts \cup {[command |-> command, result |-> v]}
           /\ classified' = classified \cup {command}
           /\ cwd' = IF v.auto_execute THEN out.cwd ELSE cwd
           /\ last_dispatch' =
                  IF v.auto_execute /\ out.executed
                  THEN Dispatch(command, "agent", FALSE,
                                \E j \in 1..Len(agent.results) :
                                    ~agent.results[j].needs_confirmation
                                        /\ ~agent.results[j].success,
                                [route |-> "agent", returncode |-> out.returncode],
                                current_dir, cwd)
                  ELSE last_dispatch
           /\ agent' = [k |-> agent.k + 1,
                        results |-> Append(agent.results, result),
                        executed_commands |->
                            IF v.auto_execute THEN Append(agent.executed_commands, command)
                            ELSE agent.executed_commands,
                        final_data |->
                            IF v.auto_execute /\ out.returncode = 0 THEN agent.final_data + 1
                            ELSE agent.final_data]
           /\ pc' = IF agent.k + 1 < Len(ai_response.suggested_commands)
                    THEN "agent_loop" ELSE "agent_result"
    /\ UNCHANGED <<envVars, safety_rules, current_dir, caller, user_input, ai_response, explore, stack,
                   arg>>

\* the commands of the results marked needs_confirmation
commands_needing_confirmation(results) ==
    LET marked == SelectSeq(results, LAMBDA r : r.needs_confirmation)
    IN  [j \in 1..Len(marked) |-> marked[j].command]

\* NLShell._handle_agent_query acting on the result of process_agent_query:
\* with data the answer is shown ('agent_response'); without, the commands
\* marked needs_confirmation go to _execute_commands_with_confirmation
AgentResult ==
    /\ pc = "agent_result"
    /\ IF agent.final_data > 0
       THEN /\ stack' = <<>>
            /\ pc' = "prompt"
            /\ history' = [appended |-> TRUE, input |-> user_input, success |-> TRUE]
       ELSE Call(commands_needing_confirmation(agent.results), FALSE)
    /\ agent' = NoAgent
    /\ UNCHANGED <<sessionEnv, returns, dirVars, caller, user_input, ai_response, explore,
                   classifierVars, last_dispatch>>

(***************************************************************************)
(* Specifications                                                          *)
(***************************************************************************)

\* the shell driven by NLShell.run
Next ==
    \/ \E u \in UserInputs : ReadInput(u)
    \/ ExecuteDirect
    \/ Question
    \/ ProcessNaturalLanguage
    \/ ThinkAndExplore
    \/ ExecuteThinkingCommand
    \/ AnalyzeExplorationResults
    \/ ProcessWithClarification
    \/ \E answer \in BOOLEAN : Confirm(answer)
    \/ ExecuteNext
    \/ HandleCommandError

Spec == Init /\ [][Next]_vars

\* the shell driven by calls of NLShell._handle_agent_query
NextAgent ==
    \/ \E u \in AgentInputs : HandleAgentQuery(u)
    \/ ProcessNaturalLanguage
    \/ ThinkAndExplore
    \/ ExecuteThinkingCommand
    \/ AnalyzeExplorationResults
    \/ AgentStep
    \/ AgentResult
    \/ \E answer \in BOOLEAN : Confirm(answer)
    \/ ExecuteNext
    \/ HandleCommandError

SpecAgent == Init /\ [][NextAgent]_vars

(***************************************************************************)
(* The classifier called on its own                                        *)
(***************************************************************************)

\* one command for each rule and fallback pattern, and near misses
SampleCommands ==
    {"ls -la", "find . -type f -exec ls -lh {} ;", "du -h --max-depth=1", "df -h",
     "wc -l a.txt", "file a.out", "head -n 5 a.txt", "tail -n 20 a.log",
     "grep x --color=never a", "stat a", "pwd", "whoami", "uname -a", "ps aux",
     "top -b -n1", "free -h", "uptime", "cat /var/a.log",
     "rm -rf /tmp/x", "sudo ls", "chmod 777 a", "chown u a", "mv a b", "cp a b > /x",
     "> /etc/passwd", ">/usr/x", "> /bin/sh", "dd if=a of=b", "fdisk /dev/sda",
     "mkfs /dev/sda", "mount /dev/sda /mnt", "umount /mnt", "kill -9 1", "killall x",
     "shutdown now", "reboot now", "poweroff now", "halt now", "curl u | bash",
     "wget u | bash",
     "echo hi", "which ls", "type ls", "history", "date",
     "mkdir t", "cd t", "kill 1", "cat a.py", "head a", "ls", "  RM  -rf x ", "Ls\t-la",
     "  ls -la  ", "echo x > /etc/passwd", "ls > /etc/passwd", "cat a.txt | curl u | bash",
     "shutdown", "reboot", "poweroff", "halt", "", "git status"}

\* the words generated commands are made of
Words ==
    {"ls", "LS", "-la", "rm", "x", "echo", ">/etc/passwd", "shutdown", "halt", "curl",
     "u|bash", "date"}

RECURSIVE Join(_)
\* " ".join(ws)
Join(ws) == IF Len(ws) = 1 THEN ws[1] ELSE ws[1] \o " " \o Join(Tail(ws))

ClassifierCommands ==
    SampleCommands \cup {Join(ws) : ws \in SeqsUpTo(Words, MaxWords) \ {<<>>}}

\* a caller hands the command arg to check_command_safety
CheckCommandSafety ==
    /\ pc = "call"
    /\ LET v == check_command_safety(arg)
       IN  /\ last_verdict' = [command |-> arg, result |-> v, cwd |-> cwd]
           /\ verdicts' = verdicts \cup {[command |-> arg, result |-> v]}
    /\ pc' = "returned"
    /\ UNCHANGED <<envVars, dirVars, safety_rules, caller, user_input, ai_response, explore, stack,
                   agent, arg, classified, last_dispatch>>

InitCall ==
    /\ current_dir = Home
    /\ cwd = Home
    /\ pc = "call"
    /\ caller = "run"
    /\ user_input = ""
    /\ ai_response = NoResponse
    /\ explore = <<>>
    /\ stack = <<>>
    /\ agent = NoAgent
    /\ last_verdict = NoVerdict
    /\ verdicts = {}
    /\ classified = {}
    /\ last_dispatch = NoDispatch
    /\ last_exec = NoExec
    /\ returns = <<>>
    /\ history = NoEntry
    /\ session = NoSession
    /\ terminal = Terminal(TRUE, "cooked")
    /\ interrupted = NoInterrupt

InitClassifier ==
    /\ InitCall
    /\ safety_rules = _init_safety_rules
    /\ arg \in ClassifierCommands

SpecClassifier == InitClassifier /\ [][CheckCommandSafety]_vars

\* rules that overlap each other and the fallback patterns
OverlappingRules ==
    {SafetyRule("^ls\\s", TRUE, "Safe file listing", TRUE),
     SafetyRule("^ls\\s+-la", FALSE, "Listing hidden files not allowed", FALSE),
     SafetyRule("ls", TRUE, "Any listing", FALSE),
     SafetyRule("^echo\\s+", FALSE, "Echo not allowed", FALSE)}

RuleTables == SeqsUpTo(OverlappingRules, MaxRules)

OrderCommands == {"ls -la", "ls x", "echo hi", "lsof", "pwd"}

InitRuleOrder ==
    /\ InitCall
    /\ safety_rules \in RuleTables
    /\ arg \in OrderCommands

SpecRuleOrder == InitRuleOrder /\ [][CheckCommandSafety]_vars

(***************************************************************************)
(* The executor called on its own                                          *)
(***************************************************************************)

\* the commands handed to _execute_command
ExecutorCommands ==
    {"cd t", "  cd t  ", "cd nowhere", "cd", "cd ~", "cd /", "cd ..", "cd ./build",
     "cd node_modules", "./a.out", "node app.js", "/bin/a x", "./notes.txt", "ls -la",
     "cat a.txt"}

\* a caller that starts _execute_command as a task of its own and goes on
\* while the call is in a PTY session
may_dispatch_unawaited(at) == at \in {"returned", "session"}

\* returncode, stdout, stderr = await self._execute_command(command): the
\* caller goes on to its next command when the call has returned
may_dispatch(at) == at = "returned"

\* a caller is about to hand the command c to _execute_command
CallExecuteCommand(c) ==
    /\ may_dispatch(pc)
    /\ arg' = c
    /\ pc' = "call"
    /\ UNCHANGED <<dirVars, safety_rules, caller, user_input, ai_response, explore, stack,
                   agent, last_verdict, verdicts, classified, last_dispatch, envVars>>

\* _execute_command runs arg and returns
ExecuteCommand ==
    /\ pc = "call"
    /\ \E out \in _execute_command(arg, current_dir, cwd) :
          /\ current_dir' = out.current_dir
          /\ cwd' = out.cwd
          /\ last_exec' = [command |-> arg, out |-> out, before |-> <<current_dir, cwd>>,
                           child_cwd |-> child_cwd(out.route, current_dir)]
    /\ pc' = "returned"
    /\ UNCHANGED <<caller, user_input, ai_response, explore, stack, agent, classifierVars,
                   last_dispatch, sessionVars, interrupted, callVars>>

InitExecutor ==
    /\ InitCall
    /\ safety_rules = _init_safety_rules
    /\ arg \in ExecutorCommands

NextExecutor ==
    \/ \E c \in ExecutorCommands : CallExecuteCommand(c)
    \/ ExecuteCommand

SpecExecutor == InitExecutor /\ [][NextExecutor]_vars

(***************************************************************************)
(* NLShell._execute_interactive_command, step by step                      *)
(***************************************************************************)

\* everything but the session and the terminal
shellVars == <<safety_rules, current_dir, cwd, pc, caller, user_input, ai_response, explore,
               stack, agent, arg, last_verdict, verdicts, classified, last_dispatch,
               last_exec, interrupted, returns, history>>

\* the commands _execute_command hands to _execute_interactive_command
PtyCommands ==
    {c \in ExecutorCommands : ~startswith(strip(c), "cd ") /\ _is_interactive_command(c)}

\* what the child writes in one call, as UTF-8 bytes: the letter a, or
\* e with an acute accent (U+00E9), which is the two bytes C3 A9
ChildTexts == {<<"a">>, <<"C3", "A9">>}

\* os.read(master_fd, 1024): what waits in the pty, up to the size asked for
os_read(pty_buffer) ==
    SubSeq(pty_buffer, 1, IF Len(pty_buffer) < ReadSize THEN Len(pty_buffer) ELSE ReadSize)

RECURSIVE decode_ignore(_)
\* data.decode('utf-8', errors='ignore'): a lead byte without its
\* continuation, or a continuation byte without its lead, is left out
decode_ignore(data) ==
    IF data = <<>> THEN <<>>
    ELSE IF Head(data) = "a" THEN <<"a">> \o decode_ignore(Tail(data))
    ELSE IF Head(data) = "C3" /\ Len(data) >= 2 /\ data[2] = "A9"
         THEN <<"U+00E9">> \o decode_ignore(Tail(Tail(data)))
    ELSE decode_ignore(Tail(data))

\* the exit status Popen reports for the child
ChildStatuses == InteractiveExitCodes

\* a handler that raises KeyboardInterrupt, as signal.default_int_handler
\* does, with nothing on the way up to catch it
_signal_handler_raises(at) == "exited"

\* NLShell._signal_handler: prints a notice and returns, so execution goes on
\* at the place the signal found it
_signal_handler(at) == at

\* the finally block without the tcsetattr
restore_terminal_skipped(old_settings, attrs) == attrs

\* the attributes of the terminal after the finally block: those of
\* old_settings when they were captured
restore_terminal(old_settings, attrs) ==
    IF old_settings # "None" THEN old_settings ELSE attrs

\* pty.openpty() gives the two descriptors
OpenPty(c) ==
    /\ session.phase \in {"idle", "returned"}
    /\ session' = [NoSession EXCEPT !.phase = "allocated", !.command = c,
                                    !.master_fd = "open", !.slave_fd = "open",
                                    !.attrs_before = terminal.attrs]
    /\ UNCHANGED <<terminal, shellVars>>

\* pty.openpty() raises: the outer handler returns 1 and the text
OpenPtyFails(c) ==
    /\ session.phase \in {"idle", "returned"}
    /\ session' = [NoSession EXCEPT !.phase = "returned", !.command = c,
                                    !.attrs_before = terminal.attrs,
                                    !.returncode = 1, !.stderr = spawn_error]
    /\ UNCHANGED <<terminal, shellVars>>

\* Popen starts the child, the parent closes the slave, and the terminal
\* goes to raw mode when standard input is one
Spawn ==
    /\ session.phase = "allocated"
    /\ session' = [session EXCEPT !.phase = "multiplexing", !.child = "running",
                                  !.slave_fd = "closed",
                                  !.old_settings = IF terminal.is_tty THEN terminal.attrs
                                                   ELSE "None"]
    /\ terminal' = IF terminal.is_tty THEN [terminal EXCEPT !.attrs = "raw"] ELSE terminal
    /\ UNCHANGED shellVars

\* Popen raises (the directory of cwd= is gone, fork fails): control goes
\* straight to the outer handler, past os.close(slave_fd) and the finally
SpawnFails ==
    /\ session.phase = "allocated"
    /\ session' = [session EXCEPT !.phase = "returned", !.returncode = 1,
                                  !.stderr = spawn_error]
    /\ UNCHANGED <<terminal, shellVars>>

\* the child writes a text to its side of the pty
ChildWrites(text) ==
    /\ session.child = "running"
    /\ session.written < MaxChunks
    /\ session' = [session EXCEPT !.written = @ + 1, !.pty_buffer = @ \o text]
    /\ UNCHANGED <<terminal, shellVars>>

\* the user types a key: one more character waits on standard input
UserTypes ==
    /\ session.phase \in {"multiplexing", "waiting", "draining"}
    /\ session.typed < MaxKeys
    /\ session' = [session EXCEPT !.typed = @ + 1,
                                  !.stdin_buffer = Append(@, session.typed + 1)]
    /\ UNCHANGED <<terminal, shellVars>>

\* a turn of the loop with standard input readable: sys.stdin.read(1) and
\* os.write(master_fd, user_input.encode())
RelayInput ==
    /\ session.phase = "multiplexing"
    /\ session.child \in {"running", "exited"}
    /\ session.stdin_buffer # <<>>
    /\ session' = [session EXCEPT !.stdin_buffer = Tail(@),
                                  !.to_child = Append(@, Head(session.stdin_buffer))]
    /\ UNCHANGED <<terminal, shellVars>>

\* the child ends
ChildExits(status) ==
    /\ session.child = "running"
    /\ session' = [session EXCEPT !.child = "exited", !.exit_status = status]
    /\ UNCHANGED <<terminal, shellVars>>

\* a turn of the loop with the master readable: the chunk goes to
\* output_buffer and to the display
RelayOutput ==
    /\ session.phase = "multiplexing"
    /\ session.child \in {"running", "exited"}
    /\ session.pty_buffer # <<>>
    /\ LET data == os_read(session.pty_buffer)
       IN  session' = [session EXCEPT
                          !.pty_buffer = SubSeq(@, Len(data) + 1, Len(@)),
                          !.received = @ \o data,
                          !.output_buffer = @ \o decode_ignore(data)]
    /\ UNCHANGED <<terminal, shellVars>>

\* process.poll() finds the child gone and the loop ends
PollExited ==
    /\ session.phase = "multiplexing"
    /\ session.child = "exited"
    /\ session' = [session EXCEPT !.phase = "waiting", !.child = "reaped"]
    /\ UNCHANGED <<terminal, shellVars>>

\* sys.stdin.read or os.read raises (EIO on the master once every descriptor
\* of the slave is closed) and the loop ends by break
LoopBreak ==
    /\ session.phase = "multiplexing"
    /\ session.child \in {"running", "exited"}
    /\ session' = [session EXCEPT !.phase = "waiting"]
    /\ UNCHANGED <<terminal, shellVars>>

\* select.select raises in the loop: the exception passes the handlers of
\* the reads and the KeyboardInterrupt clause, the finally block runs, and
\* the outer handler returns 1 and the text; nothing waits for the child
SelectFails ==
    /\ session.phase = "multiplexing"
    /\ session.child \in {"running", "exited"}
    /\ terminal' = [terminal EXCEPT
                        !.attrs = restore_terminal(session.old_settings, terminal.attrs)]
    /\ session' = [session EXCEPT
                       !.phase = "returned",
                       !.restores = IF session.old_settings # "None" THEN @ + 1 ELSE @,
                       !.master_fd = "closed", !.master_closes = @ + 1,
                       !.returncode = 1, !.stderr = select_error]
    /\ UNCHANGED shellVars

\* returncode = process.wait(), which blocks while the child runs
Wait ==
    /\ session.phase = "waiting"
    /\ session.child \in {"exited", "reaped"}
    /\ session' = [session EXCEPT !.phase = "draining", !.child = "reaped",
                                  !.returncode = session.exit_status]
    /\ UNCHANGED <<terminal, shellVars>>

\* the drain loop reads a chunk that was left in the pty
DrainChunk ==
    /\ session.phase = "draining"
    /\ session.pty_buffer # <<>>
    /\ LET data == os_read(session.pty_buffer)
       IN  session' = [session EXCEPT
                          !.pty_buffer = SubSeq(@, Len(data) + 1, Len(@)),
                          !.drained = @ + 1,
                          !.received = @ \o data,
                          !.output_buffer = @ \o decode_ignore(data)]
    /\ UNCHANGED <<terminal, shellVars>>

\* a select of the drain loop that never reports the master as ready
select_never_ready(pty_buffer) == TRUE

\* the select of the drain loop without its timeout: it returns only when
\* there is something to read
select_without_timeout(pty_buffer) == FALSE

\* select.select([master_fd], [], [], 0.1) comes back with nothing ready:
\* the pty holds no more output and the 0.1 s have passed
select_times_out(pty_buffer) == pty_buffer = <<>>

\* the drain loop finds nothing more to read
DrainDone ==
    /\ session.phase = "draining"
    /\ select_times_out(session.pty_buffer)
    /\ session' = [session EXCEPT !.phase = "finally"]
    /\ UNCHANGED <<terminal, shellVars>>

\* the finally block and the return: tcsetattr when old_settings is set,
\* os.close(master_fd), then (returncode, output_buffer, "")
Finally ==
    /\ session.phase = "finally"
    /\ terminal' = [terminal EXCEPT
                        !.attrs = restore_terminal(session.old_settings, terminal.attrs)]
    /\ session' = [session EXCEPT
                       !.phase = "returned",
                       !.restores = IF session.old_settings # "None" THEN @ + 1 ELSE @,
                       !.master_fd = "closed", !.master_closes = @ + 1,
                       !.stdout = session.output_buffer]
    /\ UNCHANGED shellVars

\* SIGINT reaches the shell during a session: the handler installed by
\* __init__ runs and the session goes on where it was
Sigint ==
    /\ session.phase \in {"multiplexing", "waiting", "draining"}
    /\ session.phase \notin session.sigint
    /\ session' = [session EXCEPT !.phase = _signal_handler(session.phase),
                                  !.sigint = @ \cup {session.phase}]
    /\ UNCHANGED <<terminal, shellVars>>

InitPty ==
    /\ safety_rules = _init_safety_rules
    /\ current_dir = Home
    /\ cwd = Home
    /\ pc = "call"
    /\ caller = "run"
    /\ user_input = ""
    /\ ai_response = NoResponse
    /\ explore = <<>>
    /\ stack = <<>>
    /\ agent = NoAgent
    /\ arg = ""
    /\ last_verdict = NoVerdict
    /\ verdicts = {}
    /\ classified = {}
    /\ last_dispatch = NoDispatch
    /\ last_exec = NoExec
    /\ returns = <<>>
    /\ history = NoEntry
    /\ interrupted = NoInterrupt
    /\ session = NoSession
    /\ terminal \in {Terminal(is_tty, attrs) : is_tty \in BOOLEAN, attrs \in TerminalModes}

NextPty ==
    \/ \E c \in PtyCommands : OpenPty(c)
    \/ \E c \in PtyCommands : OpenPtyFails(c)
    \/ Spawn
    \/ SpawnFails
    \/ \E text \in ChildTexts : ChildWrites(text)
    \/ UserTypes
    \/ RelayInput
    \/ \E status \in ChildStatuses : ChildExits(status)
    \/ RelayOutput
    \/ PollExited
    \/ LoopBreak
    \/ SelectFails
    \/ Wait
    \/ DrainChunk
    \/ DrainDone
    \/ Finally
    \/ Sigint

SpecPty == InitPty /\ [][NextPty]_vars

\* the session is straight-line code of one thread: each of its steps is
\* taken once it can be. Nothing is assumed of the child, of the user, or of
\* the exceptions that end the loop early
SpecPtyLive ==
    /\ InitPty
    /\ [][NextPty]_vars
    /\ WF_vars(Spawn)
    /\ WF_vars(PollExited)
    /\ WF_vars(Wait)
    /\ WF_vars(DrainChunk)
    /\ WF_vars(DrainDone)
    /\ WF_vars(Finally)

(***************************************************************************)
(* Callers of _execute_command and the PTY sessions it runs                *)
(***************************************************************************)

\* the commands of the callers
SessionCommands == {"./a.out", "node app.js", "ls -la"}

\* _execute_command hands the command to _execute_interactive_command
runs_in_session(command) ==
    ~startswith(strip(command), "cd ") /\ _is_interactive_command(command)

\* _execute_command runs a command that needs no PTY session
ExecuteOther ==
    /\ ~runs_in_session(arg)
    /\ ExecuteCommand

\* _execute_command calls _execute_interactive_command
EnterSession ==
    /\ pc = "call"
    /\ runs_in_session(arg)
    /\ pc' = "session"
    /\ session' = NoSession
    /\ UNCHANGED <<dirVars, classifierVars, caller, user_input, ai_response, explore, stack,
                   agent, last_dispatch, last_exec, terminal, interrupted, callVars>>

\* the session of the call allocates its pty
SessionOpenPty ==
    /\ pc = "session"
    /\ session.phase = "idle"
    /\ OpenPty(arg)

\* the session of the call fails to allocate its pty
SessionOpenPtyFails ==
    /\ pc = "session"
    /\ session.phase = "idle"
    /\ OpenPtyFails(arg)

\* _execute_interactive_command has returned and _execute_command returns
\* its triple to the caller
LeaveSession ==
    /\ pc = "session"
    /\ session.phase = "returned"
    /\ pc' = "returned"
    /\ last_exec' = [command |-> arg,
                     out |-> Outcome("pty", session.returncode,
                                     IF session.stdout = <<>> THEN "" ELSE "text",
                                     session.stderr, current_dir, cwd),
                     before |-> <<current_dir, cwd>>,
                     child_cwd |-> child_cwd("pty", current_dir)]
    /\ UNCHANGED <<dirVars, classifierVars, caller, user_input, ai_response, explore, stack,
                   agent, last_dispatch, sessionVars, interrupted, callVars>>

InitSessions ==
    /\ InitCall
    /\ safety_rules = _init_safety_rules
    /\ arg \in SessionCommands

\* the callers and the sessions of children that write nothing, with a user
\* who types nothing
NextSessions ==
    \/ \E c \in SessionCommands : CallExecuteCommand(c)
    \/ ExecuteOther
    \/ EnterSession
    \/ SessionOpenPty
    \/ SessionOpenPtyFails
    \/ Spawn
    \/ SpawnFails
    \/ \E status \in ChildStatuses : ChildExits(status)
    \/ PollExited
    \/ LoopBreak
    \/ SelectFails
    \/ Wait
    \/ DrainDone
    \/ Finally
    \/ Sigint
    \/ LeaveSession

SpecSessions == InitSessions /\ [][NextSessions]_vars

(***************************************************************************)
(* SIGINT outside a PTY session                                            *)
(***************************************************************************)

\* SIGINT reaches the shell at the prompt, during a batch command or during
\* a call of the AI: the handler installed by __init__ runs
Interrupt ==
    /\ pc # "exited"
    /\ interrupted.n < MaxInterrupts
    /\ interrupted' = [n |-> interrupted.n + 1,
                       at |-> IF pc = "prompt" THEN "prompt" ELSE "busy"]
    /\ pc' = _signal_handler(pc)
    /\ UNCHANGED <<dirVars, classifierVars, caller, user_input, ai_response, explore, stack,
                   agent, last_dispatch, last_exec, sessionVars, callVars>>

NextInterrupt ==
    \/ Next
    \/ Interrupt

SpecInterrupt == Init /\ [][NextInterrupt]_vars

(***************************************************************************)
(* Properties                                                              *)
(***************************************************************************)

\* the command of the latest classification, as the classifier matches it
Normalized == strip(lower(last_verdict.command))

\* the rules of the table whose pattern matches the command of the latest
\* classification
MatchingRules == {k \in 1..Len(safety_rules) : re_match(safety_rules[k].pattern, Normalized)}

\* the triple the classifier returns for rule k
RuleOutcome(k) ==
    Triple(safety_rules[k].allowed, safety_rules[k].auto_execute /\ safety_rules[k].allowed,
           safety_rules[k].reason)

\* the paths that hand a command on from a command list: the agent loop and
\* _execute_commands_with_confirmation
OrchestratorPaths == {"agent", "sequence"}

\* C1: a command that check_command_safety classifies allowed=false is never
\* dispatched for execution by the orchestrator, not even after confirmation
C1_DeniedNeverDispatched ==
    last_dispatch.via \in OrchestratorPaths =>
        check_command_safety(last_dispatch.command).allowed

\* C2: for input without the "!" marker, a command reaches _execute_command
\* only after check_command_safety has been called on it for that input
C2_ClassifiedBeforeExecuted ==
    (last_dispatch.via \in {"direct", "sequence"} /\ ~last_dispatch.marker) =>
        last_dispatch.command \in classified

\* C3: a command for which check_command_safety returns auto_execute=false
\* is never executed without the user's explicit approval
C3_NoAutoRunWithoutApproval ==
    (last_dispatch.via # "none"
        /\ ~check_command_safety(last_dispatch.command).auto_execute) =>
        last_dispatch.approved

\* C4: a command that matches a deny rule of the table is classified
\* allowed=false, auto_execute=false, with that rule's reason
C4_DenyRuleDenies ==
    last_verdict # NoVerdict =>
        \A k \in MatchingRules :
            ~safety_rules[k].allowed =>
                last_verdict.result = Triple(FALSE, FALSE, safety_rules[k].reason)

C4_Witness ==
    /\ last_verdict.command = "rm -rf /tmp/x"
    /\ last_verdict.result = Triple(FALSE, FALSE, "File deletion not allowed")

\* the deny rules whose pattern is not anchored at the start of the command
UnanchoredDenyRules ==
    {k \in 1..Len(safety_rules) :
        ~safety_rules[k].allowed /\ At(safety_rules[k].pattern, 1) # "^"}

\* C5: a command that contains, at any position, what an unanchored deny
\* pattern describes is classified allowed=false, auto_execute=false
C5_DenyPatternAnywhere ==
    last_verdict # NoVerdict =>
        \A k \in UnanchoredDenyRules :
            re_search(safety_rules[k].pattern, Normalized) =>
                ~last_verdict.result.allowed /\ ~last_verdict.result.auto_execute

\* the commands that change the power state of the system
PowerCommands == {"shutdown", "reboot", "poweroff", "halt"}

\* C6: a power state command is classified allowed=false, with or without
\* arguments
C6_PowerCommandsDenied ==
    (last_verdict # NoVerdict /\ first_token(Normalized) \in PowerCommands) =>
        ~last_verdict.result.allowed

\* C7: a command that matches an allow-and-auto-run rule of the table is
\* classified allowed=true, auto_execute=true, with that rule's reason
C7_AllowRuleAutoRuns ==
    last_verdict # NoVerdict =>
        \A k \in MatchingRules :
            (safety_rules[k].allowed /\ safety_rules[k].auto_execute) =>
                last_verdict.result = Triple(TRUE, TRUE, safety_rules[k].reason)

C7_Witness ==
    /\ last_verdict.command = "ls -la"
    /\ last_verdict.result = Triple(TRUE, TRUE, "Safe file listing")

\* C8: the result is that of the first rule, in declaration order, that
\* matches; later rules and the fallback patterns are not consulted
C8_FirstMatchWins ==
    (last_verdict # NoVerdict /\ MatchingRules # {}) =>
        \E k \in MatchingRules :
            /\ \A j \in MatchingRules : k <= j
            /\ last_verdict.result = RuleOutcome(k)

C8_Witness ==
    /\ last_verdict # NoVerdict
    /\ MatchingRules = {1, 2}
    /\ RuleOutcome(1) # RuleOutcome(2)
    /\ last_verdict.result = RuleOutcome(1)

\* C9: a command that matches no rule and no fallback pattern is classified
\* (true, false, "Requires user confirmation")
C9_UnknownNeedsConfirmation ==
    (last_verdict # NoVerdict /\ MatchingRules = {}
        /\ \A j \in 1..Len(safe_patterns) : ~re_match(safe_patterns[j], Normalized)) =>
        last_verdict.result = Triple(TRUE, FALSE, "Requires user confirmation")

C9_Witness ==
    /\ last_verdict.command = "mkdir t"
    /\ last_verdict.result = Triple(TRUE, FALSE, "Requires user confirmation")

C11_StopsAtFirstFailure == ~last_dispatch.after_failure

ExecCommand == strip(last_exec.command)

\* C13: a cd command whose target cannot be entered returns exit code 1 with
\* the text of the OSError in stderr, and current_dir and the directory of
\* the process are what they were before the call
C13_FailedCdLeavesDirectory ==
    LET path == strip(SubSeq(ExecCommand, 4, Len(ExecCommand)))
    IN  (startswith(ExecCommand, "cd ")
            /\ chdir_target(last_exec.before[2], path) \notin ExistingDirs) =>
            /\ last_exec.out.returncode = 1
            /\ last_exec.out.stdout = ""
            /\ last_exec.out.stderr = chdir_error(expanduser(path))
            /\ <<current_dir, cwd>> = last_exec.before

\* a cd that fails after an earlier cd had moved the shell
C13_Witness ==
    /\ last_exec.command = "cd nowhere"
    /\ last_exec.out.returncode = 1
    /\ last_exec.before = <<"/home/u/t", "/home/u/t">>
    /\ current_dir = "/home/u/t"
    /\ cwd = "/home/u/t"

\* C14: "cd" with no argument takes the directory-change path: it moves the
\* working-directory state to the home directory and returns exit code 0
\* with the confirmation message
C14_BareCdGoesHome ==
    ExecCommand = "cd" =>
        /\ last_exec.out.route = "cd"
        /\ last_exec.out.returncode = 0
        /\ last_exec.out.stdout = "Changed directory to " \o Home
        /\ current_dir = Home
        /\ cwd = Home

\* C16: every command goes to exactly one executor: a "cd " command to the
\* directory-change path whatever _is_interactive_command answers, any other
\* command to the PTY session iff _is_interactive_command is true, and to
\* the captured subprocess otherwise
C16_OneExecutorPerCommand ==
    last_exec # NoExec =>
        last_exec.out.route =
            IF startswith(ExecCommand, "cd ") THEN "cd"
            ELSE IF _is_interactive_command(last_exec.command) THEN "pty"
            ELSE "batch"

\* a cd that the interactivity heuristic would take for a program
C16_Witness ==
    /\ last_exec.command = "cd node_modules"
    /\ _is_interactive_command(last_exec.command)
    /\ last_exec.out.route = "cd"
    /\ cwd = "/home/u/node_modules"

\* C15: the working-directory state (current_dir and the directory of the
\* process) changes only in a call of _execute_command that takes a "cd "
\* command on the directory-change path and returns 0; every other step
\* (a command run in batch or PTY mode, a failed cd, an exploration command,
\* an AI call, error analysis, reading input) leaves it as it was
C15_OnlyCdMovesDirectory ==
    [][dirVars' # dirVars =>
          /\ pc \in {"direct", "execute"}
          /\ last_dispatch'.via \in {"direct", "sequence"}
          /\ startswith(strip(last_dispatch'.command), "cd ")
          /\ last_dispatch'.route = "cd"
          /\ last_dispatch'.returncode = 0
          /\ last_dispatch'.before = dirVars]_vars

\* a cd run from a confirmed list has moved the shell
C15_Witness ==
    /\ last_dispatch.via = "sequence"
    /\ last_dispatch.command = "cd t"
    /\ last_dispatch.returncode = 0
    /\ last_dispatch.before = <<"/home/u", "/home/u">>
    /\ current_dir = "/home/u/t"
    /\ cwd = "/home/u/t"

\* C17 as stated: after a PTY session has ended, whichever way, the terminal
\* has the attributes it had before the session and the restoration was
\* performed exactly once in that session.
C17_RestoredExactlyOnce ==
    session.phase = "returned" =>
        /\ terminal.attrs = session.attrs_before
        /\ session.restores = 1

\* C17, amended: after a PTY session has ended, whichever way, the terminal
\* has the attributes it had before the session; the restoration was performed
\* exactly once when the session had captured the attributes (standard input
\* is a terminal and the child was started) and not at all otherwise.
C17_RestoredOnceIfCaptured ==
    session.phase = "returned" =>
        /\ terminal.attrs = session.attrs_before
        /\ session.restores = (IF session.old_settings # "None" THEN 1 ELSE 0)
        /\ session.old_settings # "None" <=> (terminal.is_tty /\ session.child # "none")

\* a session that went through raw mode has returned after a SIGINT, with an
\* exit status of the child that reports a failure
C17_Witness ==
    /\ session.phase = "returned"
    /\ session.old_settings = "cbreak"
    /\ session.restores = 1
    /\ session.returncode = 1
    /\ session.sigint # {}
    /\ terminal.attrs = "cbreak"

\* C18: when _execute_interactive_command has returned, every descriptor the
\* session opened is closed: the master was closed exactly once and the slave
\* is closed in the parent.
C18_DescriptorsClosed ==
    session.phase = "returned" =>
        /\ session.master_fd # "none" =>
              session.master_fd = "closed" /\ session.master_closes = 1
        /\ session.slave_fd # "none" => session.slave_fd = "closed"

\* C19: a session that a SIGINT reached during the multiplexing loop has sent
\* SIGTERM to the process group of the child first, reports the exit code -1,
\* and has restored the terminal.
C19_InterruptTerminatesChild ==
    (session.phase = "returned" /\ "multiplexing" \in session.sigint) =>
        /\ session.killpg # <<>>
        /\ session.killpg[1] = "SIGTERM"
        /\ session.returncode = -1
        /\ terminal.attrs = session.attrs_before

\* C20: a SIGINT that arrives while no PTY session is active never ends the
\* shell: the handler reports it and the shell goes on from where it was, so
\* that a shell at the prompt still reads the next line.
C20_InterruptNeverEndsShell ==
    [][interrupted'.n # interrupted.n => pc' = pc /\ pc' # "exited"]_vars

\* a SIGINT arrived at the prompt, and the line typed after it is being run
C20_Witness ==
    /\ interrupted.n = 1
    /\ interrupted.at = "prompt"
    /\ pc = "direct"
    /\ user_input = "!cd t"

C22_LoopLeftOnlyAfterExit ==
    [][(session.phase = "multiplexing" /\ session'.phase # "multiplexing"
            /\ session.sigint = {})
          => session.child # "running"]_vars

RECURSIVE decode(_)
\* the text that bytes in UTF-8 spell, as a sequence of characters
decode(data) ==
    IF data = <<>> THEN <<>>
    ELSE IF Head(data) = "a" THEN <<"a">> \o decode(Tail(data))
    ELSE <<"U+00E9">> \o decode(Tail(Tail(data)))

\* C25: the output buffer a PTY session returns is what the chunks read from
\* the master say, taken together in the order they were read, with nothing
\* of them dropped, duplicated or reordered; and the keys written to the
\* master are, in order, the first keys the user typed.
C25_OutputAndInputInOrder ==
    /\ session.to_child \o session.stdin_buffer = [k \in 1..session.typed |-> k]
    /\ (session.phase = "returned" /\ session.stderr = "") =>
          session.stdout = decode(session.received)

\* C26: when _execute_interactive_command has returned, the child it started
\* has been reaped or has been sent SIGKILL: no session returns with a child
\* that was neither waited for nor killed.
C26_ChildReapedOrKilled ==
    (session.phase = "returned" /\ session.child # "none") =>
        \/ session.child = "reaped"
        \/ \E i \in 1..Len(session.killpg) : session.killpg[i] = "SIGKILL"

\* a PTY session is between its entry into raw mode and its return
SessionActive == session.phase \in {"multiplexing", "waiting", "draining", "finally"}

\* C27: while a PTY session is active, from raw mode to the restoration of
\* the terminal, the shell stays in that session: no other session is
\* started and no other command is handed to _execute_command.
C27_OneSessionAtATime ==
    [][SessionActive =>
          /\ pc = "session" /\ pc' = "session"
          /\ arg' = arg
          /\ last_exec' = last_exec
          /\ session'.command = arg]_vars

\* a second PTY session is active after an earlier one has returned
C27_Witness ==
    /\ SessionActive
    /\ session.command = "node app.js"
    /\ last_exec.command = "./a.out"
    /\ last_exec.out.route = "pty"
    /\ terminal.attrs = "raw"

\* C28: in interactive-confirm mode every command handed to the executor
\* belongs to a list the user has confirmed, at every depth of fix lists; a
\* declined confirmation dispatches nothing and the activation returns false
C28_DispatchOnlyAfterConfirmation ==
    [][/\ pc = "execute" =>
           LET top == stack[Len(stack)]
           IN  /\ top.auto_confirm \/ top.confirmed
               /\ Len(stack) > 1 => ~top.auto_confirm /\ top.confirmed
               /\ last_dispatch'.approved = top.confirmed
       /\ (pc = "confirm" /\ pc' # "execute") =>
           /\ last_dispatch' = last_dispatch
           /\ cwd' = cwd
           /\ returns' # <<>>
           /\ returns'[Len(returns')].declined
           /\ returns'[Len(returns')].zero_exits = 0
           /\ ~returns'[Len(returns')].value]_vars

\* the first command of a fix list has been dispatched after the user
\* confirmed that list, the list before it having been confirmed too
C28_Witness ==
    /\ pc = "execute"
    /\ Len(stack) = 2
    /\ stack[1].confirmed
    /\ stack[1].failed # 0
    /\ stack[2].confirmed
    /\ stack[2].i = 2
    /\ last_dispatch.via = "sequence"
    /\ last_dispatch.approved
    /\ last_dispatch.command = stack[2].commands[1]

\* C29: self.current_dir and the working directory of the process are equal
\* after every call of _execute_command that found them equal; a call
\* changes them only together and only as a cd that returns 0; every child
\* is started with that directory as its cwd
C29_CurrentDirIsWorkingDirectory ==
    /\ current_dir = cwd
    /\ last_exec.command # "" =>
           LET out == last_exec.out
               after == <<out.current_dir, out.cwd>>
           IN  /\ last_exec.before[1] = last_exec.before[2] => out.current_dir = out.cwd
               /\ after # last_exec.before =>
                      /\ out.route = "cd"
                      /\ out.returncode = 0
                      /\ out.current_dir # last_exec.before[1]
                      /\ out.cwd # last_exec.before[2]
               /\ out.route \in {"pty", "batch"} =>
                      /\ last_exec.child_cwd = last_exec.before[1]
                      /\ last_exec.child_cwd = last_exec.before[2]
                      /\ after = last_exec.before

\* a child has been started after a cd had moved the shell to another
\* directory
C29_Witness ==
    /\ pc = "returned"
    /\ last_exec.out.route \in {"pty", "batch"}
    /\ last_exec.child_cwd = "/home/u/t"
    /\ current_dir = "/home/u/t"
    /\ cwd = "/home/u/t"

\* C30: an activation returns true exactly when at least one of its commands
\* exited with 0 and false when the user declined; one that stopped at a
\* failed command after an earlier success returns true, and the entry of
\* the input in the history carries that value as its success
C30_SuccessMeansOneZeroExit ==
    /\ \A k \in 1..Len(returns) :
           /\ returns[k].value <=> returns[k].zero_exits >= 1
           /\ returns[k].declined => ~returns[k].value
           /\ (returns[k].stopped /\ returns[k].zero_exits >= 1) => returns[k].value
    /\ (caller = "run" /\ returns # <<>> /\ ~returns[1].auto_confirm) =>
           /\ history.appended
           /\ history.input = user_input
           /\ history.success = returns[1].value

\* a list stopped at its second command, the first having exited with 0, and
\* the input is in the history as successful
C30_Witness ==
    /\ returns # <<>>
    /\ returns[1].stopped
    /\ returns[1].zero_exits = 1
    /\ Len(returns[1].commands) = 2
    /\ returns[1].value
    /\ history.appended
    /\ history.success

====
